---------------------------- MODULE Spec2Model ----------------------------
(***************************************************************************)
(* Ingestion pipeline of ai-agent-rag: DOCX extraction (docx_loader.py),   *)
(* metadata normalisation, chunk-ID assignment and the incremental Chroma  *)
(* store writer (load_data.py).                                            *)
(*                                                                         *)
(* Python values are tagged records [t |-> <type>, v |-> <value>]; a dict  *)
(* is a function whose DOMAIN is its key set; a str that the code only     *)
(* passes around is a TLA+ string, a str that the code takes apart or      *)
(* joins character by character is a sequence of one-character strings.    *)
(***************************************************************************)
EXTENDS Integers, Sequences, FiniteSets, TLC

VARIABLES
    \* clean_metadata under test
    metadata, cleaned, recleaned, metaPc,
    \* calculate_chunk_ids under test
    idChunks, idResult,
    \* the persisted store and the last save_to_chroma run
    onDuplicate, dbExists, index, chunks, path, outcome, assigned, inserted,
    op, runsSince,
    \* the data directory and the listing of the last ingestion (main)
    dataDir, listed,
    \* extract_content_from_docx: the body walked, the loop's locals, the result
    body, cursor, current_section, content_parts, section_num, table_count,
    documents, originOfCurrent, originOfParts, docPc,
    \* extract_docx_table under test
    docx_table, markdown_table, tablePc,
    \* the chunks split_text returned, in the order the store writer gets them
    arrival

metaVars  == <<metadata, cleaned, recleaned, metaPc>>
idVars    == <<idChunks, idResult>>
storeVars == <<onDuplicate, dbExists, index, chunks, path, outcome, assigned,
               inserted, op, runsSince>>
dirVars   == <<dataDir, listed>>
docVars   == <<body, cursor, current_section, content_parts, section_num,
               table_count, documents, originOfCurrent, originOfParts, docPc>>
tableVars == <<docx_table, markdown_table, tablePc>>
vars      == <<metaVars, idVars, storeVars, dirVars, docVars, tableVars, arrival>>

-----------------------------------------------------------------------------
(* Python values *)

PyStr(s)   == [t |-> "str", v |-> s]
PyInt(n)   == [t |-> "int", v |-> n]
PyBool(b)  == [t |-> "bool", v |-> b]
PyFloat(s) == [t |-> "float", v |-> s]      \* v: the float's repr
PyList(xs) == [t |-> "list", v |-> xs]      \* v: a sequence of ints
PyNone     == [t |-> "none"]

EmptyDict == [k \in {} |-> PyNone]

\* dict.get(key, default)
Get(d, key, default) == IF key \in DOMAIN d THEN d[key] ELSE default

\* d[key] = value
SetItem(d, key, value) ==
    [k \in DOMAIN d \cup {key} |-> IF k = key THEN value ELSE d[k]]

RECURSIVE JoinInts(_)
JoinInts(xs) ==
    IF xs = <<>> THEN ""
    ELSE IF Len(xs) = 1 THEN ToString(xs[1])
    ELSE ToString(xs[1]) \o ", " \o JoinInts(Tail(xs))

\* str(value), which is also what an f-string writes for {value}
Str(value) ==
    CASE value.t = "str"   -> value.v
      [] value.t = "int"   -> ToString(value.v)
      [] value.t = "bool"  -> IF value.v THEN "True" ELSE "False"
      [] value.t = "float" -> value.v
      [] value.t = "list"  -> "[" \o JoinInts(value.v) \o "]"
      [] value.t = "none"  -> "None"

\* bool(value)
Truthy(value) ==
    CASE value.t = "str"   -> value.v # ""
      [] value.t = "int"   -> value.v # 0
      [] value.t = "bool"  -> value.v
      [] value.t = "float" -> value.v # "0.0"
      [] value.t = "list"  -> value.v # <<>>
      [] value.t = "none"  -> FALSE

\* int(value), for the values the sort key is given
ToInt(value) ==
    CASE value.t = "int"  -> value.v
      [] value.t = "bool" -> IF value.v THEN 1 ELSE 0

-----------------------------------------------------------------------------
(* load_data.py: clean_metadata *)

allowed_types == {"str", "int", "float", "bool", "none"}

keep_keys == {"source", "page", "type", "id", "total_pages", "has_table",
              "used_ocr", "file_type"}

\* a mutant: every present value is copied as it is, never stringified
CleanNoStringify(md) ==
    [key \in {k \in keep_keys : k \in DOMAIN md} |-> md[key]]

clean_metadata(md) ==
    LET kept == {key \in keep_keys :
                    /\ key \in DOMAIN md
                    /\ \/ md[key].t \in allowed_types
                       \/ md[key] # PyNone}
    IN  [key \in kept |->
            IF md[key].t \in allowed_types THEN md[key]
            ELSE PyStr(Str(md[key]))]

\* langchain's filter_complex_metadata as save_to_chroma calls it: the entries
\* whose value is a str, bool, int or float are kept
filter_complex_metadata(md) ==
    [key \in {k \in DOMAIN md : md[k].t \in {"str", "bool", "int", "float"}}
        |-> md[key]]

-----------------------------------------------------------------------------
(* load_data.py: calculate_chunk_ids.  A chunk is a langchain Document:    *)
(* [page_content |-> text, metadata |-> dict].                             *)

Document(text, md) == [page_content |-> text, metadata |-> md]

current_page_id(chunk) ==
    LET md           == chunk.metadata
        source       == Get(md, "source", PyStr("UNKNOWN_SOURCE"))
        page         == Get(md, "page", PyInt(0))
        has_table    == Get(md, "has_table", PyBool(FALSE))
        used_ocr     == Get(md, "used_ocr", PyBool(FALSE))
        file_type    == Get(md, "file_type", PyStr("unknown"))
        table_suffix == IF Truthy(has_table) THEN "_table" ELSE ""
        ocr_suffix   == IF Truthy(used_ocr) THEN "_ocr" ELSE ""
    IN  Str(source) \o ":" \o Str(file_type) \o ":page_" \o Str(page)
        \o table_suffix \o ocr_suffix

\* a mutant: the counter is never reset when the page identity changes
RECURSIVE ChunkIndexNoReset(_, _)
ChunkIndexNoReset(cs, i) ==
    IF i = 1 THEN 0 ELSE ChunkIndexNoReset(cs, i - 1) + 1

\* current_chunk_index when the loop reaches cs[i]; last_page_id is then the
\* page identity of cs[i - 1], and None (equal to no string) at the first chunk
RECURSIVE current_chunk_index(_, _)
current_chunk_index(cs, i) ==
    IF i = 1 THEN 0
    ELSE IF current_page_id(cs[i]) = current_page_id(cs[i - 1])
         THEN current_chunk_index(cs, i - 1) + 1
         ELSE 0

chunk_id(cs, i) ==
    current_page_id(cs[i]) \o ":chunk_" \o ToString(current_chunk_index(cs, i))

calculate_chunk_ids(cs) ==
    [i \in 1..Len(cs) |->
        [cs[i] EXCEPT !.metadata = SetItem(@, "id", PyStr(chunk_id(cs, i)))]]

\* the IDs of a list of chunks that went through calculate_chunk_ids
IdsOf(cs) == [i \in 1..Len(cs) |-> cs[i].metadata["id"].v]

Range(seq) == {seq[i] : i \in 1..Len(seq)}

HasDuplicates(seq) == Cardinality(Range(seq)) # Len(seq)

-----------------------------------------------------------------------------
(* load_data.py: the sort of save_to_chroma (lines 145-153) *)

\* Python's order on the source strings of the model, by code point
SourceOrder == <<"a.docx", "b.docx", "c.docx">>

StrLess(s, u) ==
    LET rank(x) == CHOOSE i \in 1..Len(SourceOrder) : SourceOrder[i] = x
    IN  rank(s) < rank(u)

\* the key of the lambda: (source, int(page), bool(has_table), start or 0)
SortKey(c) ==
    LET md == c.metadata
    IN  [source    |-> Get(md, "source", PyNone),
         page      |-> ToInt(Get(md, "page", PyInt(0))),
         has_table |-> Truthy(Get(md, "has_table", PyBool(FALSE))),
         start     |-> IF Get(md, "start", PyNone) # PyNone
                       THEN ToInt(Get(md, "start", PyInt(0))) ELSE 0]

\* tuple comparison; the sources compared are either all str or all None
KeyLess(k, l) ==
    LET srcLess == k.source # PyNone /\ l.source # PyNone
                   /\ StrLess(k.source.v, l.source.v)
        b2i(b)  == IF b THEN 1 ELSE 0
    IN  \/ srcLess
        \/ /\ k.source = l.source
           /\ \/ k.page < l.page
              \/ /\ k.page = l.page
                 /\ \/ b2i(k.has_table) < b2i(l.has_table)
                    \/ /\ k.has_table = l.has_table
                       /\ k.start < l.start

\* x goes after every element whose key is not greater: the sort is stable
RECURSIVE InsertSorted(_, _)
InsertSorted(x, seq) ==
    IF seq = <<>> THEN <<x>>
    ELSE IF KeyLess(SortKey(x), SortKey(Head(seq)))
         THEN <<x>> \o seq
         ELSE <<Head(seq)>> \o InsertSorted(x, Tail(seq))

RECURSIVE SortedFrom(_, _)
SortedFrom(seq, acc) ==
    IF seq = <<>> THEN acc
    ELSE SortedFrom(Tail(seq), InsertSorted(Head(seq), acc))

sorted(cs) == SortedFrom(cs, <<>>)

\* where the stable sort puts cs[i]: after the chunks with a smaller key and
\* after the earlier chunks with an equal key
SortedPos(cs, i) ==
    Cardinality({j \in 1..Len(cs) :
        \/ KeyLess(SortKey(cs[j]), SortKey(cs[i]))
        \/ /\ j <= i
           /\ ~KeyLess(SortKey(cs[i]), SortKey(cs[j]))})

-----------------------------------------------------------------------------
(* load_data.py: save_to_chroma and clear_database.                        *)
(* The store: dbExists is os.path.exists(db_location); index maps each ID  *)
(* of the collection to its document, [page_content, metadata].            *)

MaxChunks == 3

EmptyIndex == [id \in {} |-> Document("", EmptyDict)]

\* lines 132-135: filter_complex_metadata, then clean_metadata on every chunk
Prepared(cs) ==
    [i \in 1..Len(cs) |->
        Document(cs[i].page_content,
                 clean_metadata(filter_complex_metadata(cs[i].metadata)))]

\* lines 145-154
chunks_with_ids(cs) == calculate_chunk_ids(sorted(Prepared(cs)))

\* a mutant: the existing IDs are not looked at, every chunk is written again
NewChunksAll(with_ids, exists, existing_ids) == with_ids

\* lines 163-170 (an existing store) and 185 (a new one): the chunks written
new_chunks(with_ids, exists, existing_ids) ==
    IF exists
    THEN SelectSeq(with_ids, LAMBDA c : c.metadata["id"].v \notin existing_ids)
    ELSE with_ids

\* lines 176-177: the chunks to add are cleaned once more
Recleaned(cs) ==
    [i \in 1..Len(cs) |->
        Document(cs[i].page_content, clean_metadata(cs[i].metadata))]

\* the collection after a batch is written under its ids: of two chunks of
\* the batch under one ID the later one stays
Written(idx, batch) ==
    LET ids == IdsOf(batch)
        last(id) == CHOOSE i \in 1..Len(batch) :
                        /\ ids[i] = id
                        /\ \A j \in 1..Len(batch) : ids[j] = id => j <= i
    IN  [id \in DOMAIN idx \cup Range(ids) |->
            IF id \in Range(ids) THEN batch[last(id)] ELSE idx[id]]

\* the caller's chunk objects after the call: their metadata is the cleaned
\* one with the assigned id (the list itself keeps its order)
Mutated(cs) ==
    LET with_ids == chunks_with_ids(cs)
    IN  [i \in 1..Len(cs) |-> with_ids[SortedPos(Prepared(cs), i)]]

\* what the run assigned: each chunk's ID with its text, in sorted order
Assigned(with_ids) ==
    [i \in 1..Len(with_ids) |->
        [id |-> with_ids[i].metadata["id"].v, text |-> with_ids[i].page_content]]

AssignedIds(a) == {a[i].id : i \in 1..Len(a)}

\* save_to_chroma(cs) on a store in state (exists, idx).  A batch that names
\* one ID twice is, by the collection in use (onDuplicate), either refused
\* (the call raises and nothing is written; on the create path the client
\* may already have made the directory) or written with the later chunk
\* replacing the earlier: the source does not decide which.
save_to_chroma(cs, exists, idx) ==
    LET with_ids == chunks_with_ids(cs)
        batch    == new_chunks(with_ids, exists, DOMAIN idx)
        add      == IF exists THEN Recleaned(batch) ELSE batch
    IN  /\ path' = IF exists THEN "update" ELSE "create"
        /\ assigned' = Assigned(with_ids)
        /\ IF HasDuplicates(IdsOf(batch)) /\ onDuplicate = "raise"
           THEN /\ index' = idx
                /\ inserted' = {}
                /\ outcome' = "raised"
                /\ dbExists' \in {exists, TRUE}
           ELSE /\ index' = Written(idx, add)
                /\ inserted' = Range(IdsOf(batch))
                /\ outcome' = "ok"
                /\ dbExists' = TRUE

\* a mutant: the directory is removed only when the collection is empty
ClearOnlyEmpty(exists, idx) ==
    IF exists /\ DOMAIN idx = {}
    THEN [exists |-> FALSE, idx |-> EmptyIndex]
    ELSE [exists |-> exists, idx |-> idx]

\* clear_database on a store in state (exists, idx): the store it leaves
clear_database(exists, idx) ==
    IF exists
    THEN [exists |-> FALSE, idx |-> EmptyIndex]
    ELSE [exists |-> exists, idx |-> idx]

-----------------------------------------------------------------------------
(* The chunks the store writer is given *)

\* the metadata docx_loader gives a section (lines 111-118)
SectionMetadata(filename, i, total_sections, has_table) ==
    [key \in {"source", "page", "total_pages", "type", "has_table", "file_type"}
        |-> CASE key = "source"      -> PyStr(filename)
              [] key = "page"        -> PyInt(i)
              [] key = "total_pages" -> PyInt(total_sections)
              [] key = "type"        -> PyStr(IF has_table THEN "docx_table"
                                              ELSE "docx_text")
              [] key = "has_table"   -> PyBool(has_table)
              [] key = "file_type"   -> PyStr("docx")]

\* a chunk as the splitter returns it (add_start_index=True): the section's
\* metadata and start_index
SplitChunk(text, md, start) ==
    Document(text, SetItem(md, "start_index", PyInt(start)))

\* a chunk marked as read by OCR
OcrChunk(c) == [c EXCEPT !.metadata = SetItem(@, "used_ocr", PyBool(TRUE))]

SeqsUpTo(S, n) == UNION {[1..k -> S] : k \in 1..n}

IdleMeta ==
    /\ metadata = EmptyDict /\ cleaned = EmptyDict /\ recleaned = EmptyDict
    /\ metaPc = "idle"
IdleIds  == idChunks = <<>> /\ idResult = <<>>
IdleDir  == dataDir = {} /\ listed = {}
IdleDoc  ==
    /\ body = <<>> /\ cursor = 0 /\ current_section = <<>> /\ content_parts = <<>>
    /\ section_num = 0 /\ table_count = 0 /\ documents = <<>>
    /\ originOfCurrent = <<>> /\ originOfParts = <<>> /\ docPc = "idle"
IdleTable == docx_table = <<>> /\ markdown_table = <<>> /\ tablePc = "idle"
IdleArrival == arrival = <<>>

NoStore ==
    /\ dbExists = FALSE
    /\ index = EmptyIndex
    /\ path = "none"
    /\ outcome = "none"
    /\ assigned = <<>>
    /\ inserted = {}
    /\ op = "none"
    /\ runsSince = 0

\* runsSince counts the runs since the start or the last reset, up to 2
OneMoreRun(n) == IF n = 0 THEN 1 ELSE 2

-----------------------------------------------------------------------------
(* SpecRerun: one list of chunks, held by the caller, is saved again and   *)
(* again, with resets in between.                                          *)

HeldChunks ==
    LET plain == {SplitChunk(text, SectionMetadata(src, 0, 1, FALSE), 0) :
                    text \in {"x", "y"}, src \in {"a.docx", "b.docx"}}
    IN  plain \cup {OcrChunk(c) : c \in plain}

RerunInit ==
    /\ chunks \in SeqsUpTo(HeldChunks, MaxChunks)
    /\ onDuplicate \in {"raise", "replace"}
    /\ NoStore /\ IdleArrival /\ IdleMeta /\ IdleIds /\ IdleDir /\ IdleDoc /\ IdleTable

SaveHeld ==
    /\ save_to_chroma(chunks, dbExists, index)
    /\ chunks' = Mutated(chunks)
    /\ op' = "save"
    /\ runsSince' = OneMoreRun(runsSince)
    /\ UNCHANGED <<onDuplicate, metaVars, arrival, idVars, dirVars, docVars, tableVars>>

ClearDatabase ==
    /\ dbExists' = clear_database(dbExists, index).exists
    /\ index' = clear_database(dbExists, index).idx
    /\ op' = "clear"
    /\ runsSince' = 0
    /\ UNCHANGED <<onDuplicate, chunks, path, outcome, assigned, inserted,
                   metaVars, arrival, idVars, dirVars, docVars, tableVars>>

RerunNext == SaveHeld \/ ClearDatabase

SpecRerun == RerunInit /\ [][RerunNext]_vars

\* C1: when save_to_chroma is called again on the chunk list of the previous
\* call, with no reset in between, the second call assigns the same IDs,
\* inserts nothing and leaves the content and the count of the index as the
\* first call left them; when the first call completed, every assigned ID is
\* already in the index, and the first call on an absent store had inserted
\* every assigned ID.
C1_IdempotentRerun ==
    /\ [][(runsSince >= 1 /\ op' = "save") =>
            /\ assigned' = assigned
            /\ inserted' = {}
            /\ index' = index
            /\ Cardinality(DOMAIN index') = Cardinality(DOMAIN index)
            /\ outcome' = outcome
            /\ outcome = "ok" => AssignedIds(assigned') \subseteq DOMAIN index
          ]_vars
    /\ [][(runsSince = 0 /\ op' = "save" /\ outcome' = "ok") =>
            /\ path' = "create"
            /\ inserted' = AssignedIds(assigned')
            /\ DOMAIN index' = AssignedIds(assigned')
          ]_vars

\* a second call that found the three chunks of the first already stored
C1_Witness ==
    /\ runsSince = 2 /\ op = "save" /\ path = "update" /\ outcome = "ok"
    /\ inserted = {}
    /\ Len(chunks) = 3
    /\ Cardinality(DOMAIN index) = 3

-----------------------------------------------------------------------------
(* SpecIngest: main() run again and again over a data directory whose DOCX *)
(* files are added, edited and removed between the runs.                   *)

\* what extract_content_from_docx finds in a file: its content parts in
\* document order.  Version 2 of b.docx is the file after an edit that
\* rewrote its text and dropped its table.
FileParts(name, version) ==
    CASE name = "a.docx" ->
            <<[type |-> "text", content |-> "A"]>>
      [] name = "b.docx" /\ version = 1 ->
            <<[type |-> "text", content |-> "B-long"],
              [type |-> "table", content |-> "B-table"]>>
      [] name = "b.docx" /\ version = 2 ->
            <<[type |-> "text", content |-> "B-edited"]>>
      [] name = "c.docx" ->
            <<[type |-> "table", content |-> "C-table"],
              [type |-> "text", content |-> "C-long"]>>

Files ==
    {[name |-> "a.docx", version |-> 1], [name |-> "b.docx", version |-> 1],
     [name |-> "b.docx", version |-> 2], [name |-> "c.docx", version |-> 1]}

\* the sections whose text is longer than the splitter's chunk_size
LongTexts == {"B-long", "C-long"}

\* a mutant: page counts from 1
MakeDocumentsOneBased(filename, parts) ==
    [i \in 1..Len(parts) |->
        Document(parts[i].content,
                 SectionMetadata(filename, i, Len(parts),
                                 parts[i].type = "table"))]

\* docx_loader.py lines 104-120: the documents made from the content parts
MakeDocuments(filename, parts) ==
    [i \in 1..Len(parts) |->
        Document(parts[i].content,
                 SectionMetadata(filename, i - 1, Len(parts),
                                 parts[i].type = "table"))]

RECURSIVE Concat(_)
Concat(seqs) == IF seqs = <<>> THEN <<>> ELSE Head(seqs) \o Concat(Tail(seqs))

\* load_document: the documents of the files in listing order; a file that
\* yields no section adds nothing
load_document(order) ==
    Concat([i \in 1..Len(order) |->
        MakeDocuments(order[i].name, FileParts(order[i].name, order[i].version))])

\* RecursiveCharacterTextSplitter.split_documents on one document: a long
\* text gives two overlapping chunks, any other text one
SplitDocument(doc, chunk_size, chunk_overlap) ==
    IF doc.page_content \in LongTexts
    THEN <<SplitChunk(doc.page_content \o "[0]", doc.metadata, 0),
           SplitChunk(doc.page_content \o "[1]", doc.metadata,
                      chunk_size - chunk_overlap)>>
    ELSE <<SplitChunk(doc.page_content, doc.metadata, 0)>>

\* split_text: the regular sections' chunks, then the table sections' chunks
split_text(sections) ==
    LET docs_with_tables ==
            SelectSeq(sections,
                LAMBDA d : Truthy(Get(d.metadata, "has_table", PyNone)))
        regular_docs ==
            SelectSeq(sections,
                LAMBDA d : ~Truthy(Get(d.metadata, "has_table", PyNone)))
        regular_chunks ==
            Concat([i \in 1..Len(regular_docs) |->
                       SplitDocument(regular_docs[i], 1000, 200)])
        table_chunks ==
            Concat([i \in 1..Len(docs_with_tables) |->
                       SplitDocument(docs_with_tables[i], 2000, 200)])
    IN  regular_chunks \o table_chunks

\* the orders in which os.listdir may give the files of the directory
Listings(dir) ==
    {order \in [1..Cardinality(dir) -> dir] : Range(order) = dir}

IngestInit ==
    /\ dataDir = {}
    /\ listed = {}
    /\ chunks = <<>>
    /\ onDuplicate = "raise"
    /\ NoStore /\ IdleArrival /\ IdleMeta /\ IdleIds /\ IdleDoc /\ IdleTable

\* a file is put into the directory, or saved again after an edit
PutFile ==
    \E f \in Files :
        /\ f \notin dataDir
        /\ dataDir' = {g \in dataDir : g.name # f.name} \cup {f}
        /\ UNCHANGED <<listed, storeVars, metaVars, arrival, idVars, docVars, tableVars>>

RemoveFile ==
    \E f \in dataDir :
        /\ dataDir' = dataDir \ {f}
        /\ UNCHANGED <<listed, storeVars, metaVars, arrival, idVars, docVars, tableVars>>

\* main(), with or without --reset, os.listdir giving the files as order
Main(reset, order) ==
    LET store0    == IF reset THEN clear_database(dbExists, index)
                     ELSE [exists |-> dbExists, idx |-> index]
        runs0     == IF reset THEN 0 ELSE runsSince
        loaded == load_document(order)
        split     == split_text(loaded)
        cs        == [i \in 1..Len(split) |->
                         Document(split[i].page_content,
                                  clean_metadata(split[i].metadata))]
    IN  /\ listed' = Range(order)
        /\ op' = IF reset THEN "main_reset" ELSE "main"
        /\ IF loaded = <<>>
           THEN /\ dbExists' = store0.exists
                /\ index' = store0.idx
                /\ runsSince' = runs0
                /\ UNCHANGED <<path, outcome, assigned, inserted>>
           ELSE /\ save_to_chroma(cs, store0.exists, store0.idx)
                /\ runsSince' = OneMoreRun(runs0)
        /\ UNCHANGED <<onDuplicate, chunks, dataDir, metaVars, arrival, idVars, docVars,
                       tableVars>>

Ingest == \E order \in Listings(dataDir) : Main(FALSE, order)

IngestReset == \E order \in Listings(dataDir) : Main(TRUE, order)

IngestNext == PutFile \/ RemoveFile \/ Ingest \/ IngestReset

SpecIngest == IngestInit /\ [][IngestNext]_vars

\* a step of main() without --reset, and one with it (the files stay as
\* they are; a step of PutFile or RemoveFile changes dataDir); main() runs
\* save_to_chroma when the listing it got is not empty
MainStep  == dataDir' = dataDir /\ op' = "main"
ResetStep == dataDir' = dataDir /\ op' = "main_reset"

\* the index holds the chunks the last run assigned IDs to, and no other
HoldsLastRun ==
    /\ dbExists
    /\ DOMAIN index = AssignedIds(assigned)
    /\ \A i \in 1..Len(assigned) :
          index[assigned[i].id].page_content = assigned[i].text

\* C2: without a reset the index is append-only: an ID that is in the index
\* stays, with the document stored under it unchanged, also when a later run
\* assigns that ID to a chunk of an edited file; a run adds only IDs that
\* were absent from the index it loaded.
C2_AppendOnly ==
    /\ [][~ResetStep =>
            \A id \in DOMAIN index :
                id \in DOMAIN index' /\ index'[id] = index[id]]_vars
    /\ [][(MainStep /\ listed' # {}) =>
            /\ inserted' \cap DOMAIN index = {}
            /\ DOMAIN index' = DOMAIN index \cup inserted']_vars

\* a run that assigned a stored ID to a chunk with another text, and the
\* stored text is still the old one
C2_Witness ==
    /\ op = "main" /\ path = "update" /\ outcome = "ok"
    /\ \E i \in 1..Len(assigned) :
          /\ assigned[i].id \in DOMAIN index
          /\ assigned[i].id \notin inserted
          /\ index[assigned[i].id].page_content # assigned[i].text

\* the chunks main() makes of one file
ChunksOfFile(f) == split_text(load_document(<<f>>))

\* C5: when the index holds exactly the chunks of the files of the last run
\* and main() runs again, without --reset, over these files and one file
\* with a new name, then whatever that name and the listing order: the old
\* chunks are assigned the IDs they had, the entries of the index stay, the
\* inserted IDs are those of the new file's chunks, and count() grows by the
\* number of the new file's chunks.
C5_Incremental ==
    [][\A f \in dataDir :
          ( /\ MainStep
            /\ HoldsLastRun
            /\ listed # {}
            /\ f \notin listed
            /\ dataDir = listed \cup {f}
            /\ \A g \in listed : g.name # f.name )
          => /\ \A i \in 1..Len(assigned) :
                   \E j \in 1..Len(assigned') : assigned'[j] = assigned[i]
             /\ \A id \in DOMAIN index :
                   id \in DOMAIN index' /\ index'[id] = index[id]
             /\ inserted' = {id \in DOMAIN index' :
                               index'[id].metadata["source"].v = f.name}
             /\ inserted' = DOMAIN index' \ DOMAIN index
             /\ Cardinality(DOMAIN index') =
                   Cardinality(DOMAIN index) + Len(ChunksOfFile(f))
      ]_vars

\* b.docx was added between a.docx and c.docx, and only its three chunks
\* were inserted
C5_Witness ==
    /\ op = "main" /\ path = "update" /\ outcome = "ok"
    /\ listed = {[name |-> "a.docx", version |-> 1],
                 [name |-> "b.docx", version |-> 1],
                 [name |-> "c.docx", version |-> 1]}
    /\ Cardinality(inserted) = 3
    /\ \A id \in inserted : index[id].metadata["source"].v = "b.docx"
    /\ Cardinality(DOMAIN index) = 7

\* C6: after a reset there is no persisted store; the first save_to_chroma
\* after a reset (or after the start) takes the create path and completes,
\* every chunk it was given is inserted, and the index then holds exactly the
\* IDs and texts of that run's chunks.
C6_Reset ==
    /\ (op = "main_reset" /\ runsSince = 0) =>
            ~dbExists /\ DOMAIN index = {}
    /\ (op \in {"main", "main_reset"} /\ runsSince = 1) =>
            /\ path = "create"
            /\ outcome = "ok"
            /\ inserted = AssignedIds(assigned)
            /\ Cardinality(inserted) = Len(assigned)
            /\ HoldsLastRun

\* main --reset over a directory that holds only the edited b.docx: the one
\* chunk of this run is all the index holds
C6_Witness ==
    /\ op = "main_reset" /\ runsSince = 1 /\ path = "create"
    /\ listed = {[name |-> "b.docx", version |-> 2]}
    /\ DOMAIN index = {"b.docx:docx:page_0:chunk_0"}
    /\ index["b.docx:docx:page_0:chunk_0"].page_content = "B-edited"

-----------------------------------------------------------------------------
(* SpecIds: calculate_chunk_ids on a list of chunks *)

\* a chunk of a section with a start offset, read by OCR or not
IdChunk(src, ftype, page, table, ocr, start) ==
    LET md == [key \in {"source", "file_type", "page", "has_table"} |->
                 CASE key = "source"    -> PyStr(src)
                   [] key = "file_type" -> PyStr(ftype)
                   [] key = "page"      -> PyInt(page)
                   [] key = "has_table" -> PyBool(table)]
        c  == SplitChunk("t", md, start)
    IN  IF ocr THEN OcrChunk(c) ELSE c

IdUniverse ==
    {IdChunk("a.docx", "docx", page, table, ocr, start) :
        page \in {0, 1}, table \in BOOLEAN, ocr \in BOOLEAN, start \in {0, 1}}
    \cup {IdChunk("a.docx", "pdf", 0, FALSE, FALSE, 1),
          IdChunk("b.docx", "docx", 0, FALSE, FALSE, 0)}

IdsInit ==
    /\ idChunks \in SeqsUpTo(IdUniverse, MaxChunks)
    /\ idResult = <<>>
    /\ chunks = <<>>
    /\ onDuplicate = "raise"
    /\ NoStore /\ IdleArrival /\ IdleMeta /\ IdleDir /\ IdleDoc /\ IdleTable

AssignIds ==
    /\ idResult = <<>>
    /\ idResult' = calculate_chunk_ids(idChunks)
    /\ UNCHANGED <<idChunks, metaVars, arrival, storeVars, dirVars, docVars, tableVars>>

IdsNext == AssignIds

SpecIds == IdsInit /\ [][IdsNext]_vars

\* the fields of the sort key and the page identity, read off a chunk
SourceOf(c)   == c.metadata["source"].v
FileTypeOf(c) == c.metadata["file_type"].v
PageOf(c)     == c.metadata["page"].v
HasTable(c)   == c.metadata["has_table"].v
UsedOcr(c)    == "used_ocr" \in DOMAIN c.metadata /\ c.metadata["used_ocr"].v
StartOf(c)    == c.metadata["start_index"].v

\* ascending by (source, page, has_table, start_offset)
StatedKeyLeq(c, d) ==
    LET b2i(b) == IF b THEN 1 ELSE 0
    IN  \/ StrLess(SourceOf(c), SourceOf(d))
        \/ /\ SourceOf(c) = SourceOf(d)
           /\ \/ PageOf(c) < PageOf(d)
              \/ /\ PageOf(c) = PageOf(d)
                 /\ \/ b2i(HasTable(c)) < b2i(HasTable(d))
                    \/ /\ HasTable(c) = HasTable(d)
                       /\ StartOf(c) <= StartOf(d)

SortedInput(cs) == \A i \in 1..(Len(cs) - 1) : StatedKeyLeq(cs[i], cs[i + 1])

DistinctTuples(cs) ==
    \A i, j \in 1..Len(cs) :
        i # j => <<SourceOf(cs[i]), PageOf(cs[i]), HasTable(cs[i]),
                   UsedOcr(cs[i]), StartOf(cs[i])>>
                 # <<SourceOf(cs[j]), PageOf(cs[j]), HasTable(cs[j]),
                     UsedOcr(cs[j]), StartOf(cs[j])>>

\* C3: for an input sorted ascending by (source, page, has_table,
\* start_offset) whose chunks have pairwise distinct (source, page,
\* has_table, used_ocr, start_offset), the assigned IDs are pairwise distinct.
C3_IdsUnique ==
    (idResult # <<>> /\ SortedInput(idChunks) /\ DistinctTuples(idChunks))
        => ~HasDuplicates(IdsOf(idResult))

\* the page identity <source>:<file_type>:page_<page>[_table][_ocr]
PageIdentity(c) ==
    SourceOf(c) \o ":" \o FileTypeOf(c) \o ":page_" \o ToString(PageOf(c))
    \o (IF HasTable(c) THEN "_table" ELSE "")
    \o (IF UsedOcr(c) THEN "_ocr" ELSE "")

ExampleChunks ==
    <<IdChunk("a.docx", "docx", 0, FALSE, FALSE, 0),
      IdChunk("a.docx", "docx", 0, FALSE, FALSE, 1),
      IdChunk("a.docx", "docx", 1, TRUE, FALSE, 0)>>

\* C4: each chunk gets the ID <page identity>:chunk_<n>, where n is 0 for the
\* first chunk and for a chunk whose page identity differs from that of the
\* chunk before it, and one more than the n of the chunk before it otherwise;
\* the text and the other metadata of the chunk stay; the three chunks of
\* the example get a.docx:docx:page_0:chunk_0, a.docx:docx:page_0:chunk_1 and
\* a.docx:docx:page_1_table:chunk_0.
C4_IdFormat ==
    idResult # <<>> =>
        /\ Len(idResult) = Len(idChunks)
        /\ \E n \in [1..Len(idChunks) -> 0..Len(idChunks)] :
              /\ \A i \in 1..Len(idChunks) :
                    n[i] = IF i > 1 /\ PageIdentity(idChunks[i])
                                       = PageIdentity(idChunks[i - 1])
                           THEN n[i - 1] + 1 ELSE 0
              /\ \A i \in 1..Len(idChunks) :
                    /\ idResult[i].metadata["id"] =
                          PyStr(PageIdentity(idChunks[i]) \o ":chunk_"
                                \o ToString(n[i]))
                    /\ idResult[i].page_content = idChunks[i].page_content
                    /\ \A key \in DOMAIN idChunks[i].metadata :
                          idResult[i].metadata[key] = idChunks[i].metadata[key]
        /\ idChunks = ExampleChunks =>
              IdsOf(idResult) = <<"a.docx:docx:page_0:chunk_0",
                                  "a.docx:docx:page_0:chunk_1",
                                  "a.docx:docx:page_1_table:chunk_0">>

\* the IDs of the example were assigned
C4_Witness ==
    /\ idChunks = ExampleChunks
    /\ IdsOf(idResult) = <<"a.docx:docx:page_0:chunk_0",
                           "a.docx:docx:page_0:chunk_1",
                           "a.docx:docx:page_1_table:chunk_0">>

-----------------------------------------------------------------------------
(* SpecMeta: clean_metadata on a metadata mapping, and on its own result *)

MaxKeys == 2

MetaKeys == keep_keys \cup {"start_index", "author"}

MetaValues ==
    {PyStr("a.docx"), PyInt(3), PyBool(TRUE), PyFloat("1.5"), PyNone,
     PyList(<<1, 2>>)}

MetaInputs ==
    UNION {[D -> MetaValues] :
              D \in {K \in SUBSET MetaKeys : Cardinality(K) <= MaxKeys}}

MetaInit ==
    /\ metadata \in MetaInputs
    /\ cleaned = EmptyDict
    /\ recleaned = EmptyDict
    /\ metaPc = "start"
    /\ chunks = <<>>
    /\ onDuplicate = "raise"
    /\ NoStore /\ IdleArrival /\ IdleIds /\ IdleDir /\ IdleDoc /\ IdleTable

Clean ==
    /\ metaPc = "start"
    /\ cleaned' = clean_metadata(metadata)
    /\ metaPc' = "cleaned"
    /\ UNCHANGED <<metadata, recleaned, idVars, arrival, storeVars, dirVars, docVars,
                   tableVars>>

CleanAgain ==
    /\ metaPc = "cleaned"
    /\ recleaned' = clean_metadata(cleaned)
    /\ metaPc' = "recleaned"
    /\ UNCHANGED <<metadata, cleaned, idVars, arrival, storeVars, dirVars, docVars,
                   tableVars>>

MetaNext == Clean \/ CleanAgain

SpecMeta == MetaInit /\ [][MetaNext]_vars

\* C10: clean_metadata keeps exactly the keys of the input that are among
\* source, page, type, id, total_pages, has_table, used_ocr, file_type; a
\* value that is a string, a number, a boolean or null is kept as it is, any
\* other value is replaced by its string; and cleaning the result again
\* gives the result.
C10_CleanMetadata ==
    /\ metaPc \in {"cleaned", "recleaned"} =>
          /\ DOMAIN cleaned =
                DOMAIN metadata \cap
                    {"source", "page", "type", "id", "total_pages",
                     "has_table", "used_ocr", "file_type"}
          /\ \A key \in DOMAIN cleaned :
                /\ cleaned[key].t \in {"str", "int", "float", "bool", "none"}
                /\ metadata[key].t \in {"str", "int", "float", "bool", "none"}
                      => cleaned[key] = metadata[key]
                /\ metadata[key] = PyList(<<1, 2>>)
                      => cleaned[key] = PyStr("[1, 2]")
    /\ metaPc = "recleaned" => recleaned = cleaned

\* a mapping with a list under a kept key and a key that is not kept, cleaned
\* twice
C10_Witness ==
    /\ metaPc = "recleaned"
    /\ "author" \in DOMAIN metadata
    /\ \E key \in DOMAIN cleaned :
          metadata[key].t = "list" /\ cleaned[key] = PyStr("[1, 2]")
    /\ recleaned = cleaned
-----------------------------------------------------------------------------
(* docx_loader.py: text is a sequence of characters *)

Whitespace == {" ", "\n", "\t"}

RECURSIVE lstrip(_)
lstrip(s) == IF s # <<>> /\ Head(s) \in Whitespace THEN lstrip(Tail(s)) ELSE s

RECURSIVE rstrip(_)
rstrip(s) ==
    IF s # <<>> /\ s[Len(s)] \in Whitespace
    THEN rstrip(SubSeq(s, 1, Len(s) - 1))
    ELSE s

\* str.strip()
strip(s) == rstrip(lstrip(s))

\* sep.join(xs)
RECURSIVE join(_, _)
join(sep, xs) ==
    IF xs = <<>> THEN <<>>
    ELSE IF Len(xs) = 1 THEN xs[1]
    ELSE xs[1] \o sep \o join(sep, Tail(xs))

\* the decimal digits of an f-string's {table_count}
RECURSIVE Digits(_)
Digits(n) ==
    IF n < 10 THEN <<ToString(n)>>
    ELSE Digits(n \div 10) \o <<ToString(n % 10)>>

\* [x] * n: the empty list when n <= 0
Repeat(x, n) == [i \in 1..n |-> x]

\* xs[:n]
Prefix(xs, n) == SubSeq(xs, 1, IF n < Len(xs) THEN n ELSE Len(xs))

-----------------------------------------------------------------------------
(* docx_loader.py: table_to_markdown, extract_docx_table *)

\* "| " + " | ".join(cells) + " |"; str(cell) if cell else "" is the cell
\* itself for a str
MarkdownLine(cells) ==
    <<"|", " ">> \o join(<<" ", "|", " ">>, cells) \o <<" ", "|">>

\* the list markdown of table_to_markdown, for a table of two rows or more
MarkdownRows(table_data) ==
    LET headers == table_data[1]
        padded_row(row) == row \o Repeat(<<>>, Len(headers) - Len(row))
    IN  <<MarkdownLine(headers),
          MarkdownLine(Repeat(<<"-", "-", "-">>, Len(headers)))>>
        \o [r \in 1..(Len(table_data) - 1) |->
              MarkdownLine(Prefix(padded_row(table_data[r + 1]), Len(headers)))]

table_to_markdown(table_data) ==
    IF table_data = <<>> \/ Len(table_data) < 2
    THEN <<>>
    ELSE join(<<"\n">>, MarkdownRows(table_data))

\* a table of the document: the text of each cell of each row; raises marks
\* a table whose rows or cells python-docx fails to read
DocxTable(rows, raises) == [kind |-> "table", text |-> <<>>, rows |-> rows,
                            raises |-> raises]

\* table_data of extract_docx_table
table_data_of(t) ==
    [r \in 1..Len(t.rows) |->
        [c \in 1..Len(t.rows[r]) |-> strip(t.rows[r][c])]]

extract_docx_table(t) ==
    IF t.raises THEN <<>>
    ELSE IF Len(table_data_of(t)) >= 2
         THEN table_to_markdown(table_data_of(t))
         ELSE <<>>

-----------------------------------------------------------------------------
(* docx_loader.py: extract_content_from_docx (lines 42-129) *)

\* a paragraph of the document body
DocxParagraph(text) == [kind |-> "paragraph", text |-> text, rows |-> <<>>,
                        raises |-> FALSE]

\* an entry of content_parts
Part(type, content, section) ==
    [type |-> type, content |-> content, section |-> section]

\* "\n\n".join(current_section)
section_text(section) == join(<<"\n", "\n">>, section)

\* f"\n**Bảng {table_count}:**\n{markdown_table}\n"
TableContent(count, markdown) ==
    <<"\n", "*", "*", "B", "ả", "n", "g", " ">> \o Digits(count)
    \o <<":", "*", "*", "\n">> \o markdown \o <<"\n">>

\* the text accumulated so far becomes a part (lines 71-79 and 94-101)
FlushText(parts, section, num) ==
    IF section # <<>> /\ section_text(section) # <<>>
    THEN Append(parts, Part("text", section_text(section), num))
    ELSE parts

\* a mutant: the table's part is appended before the text accumulated
\* ahead of it
TablePartsFirst(parts, section, num, count, markdown) ==
    LET tabled == IF markdown # <<>>
                  THEN Append(parts, Part("table",
                                          TableContent(count + 1, markdown), num))
                  ELSE parts
    IN  FlushText(tabled, section, num + Len(tabled) - Len(parts))

\* content_parts after a table element (lines 71-91)
TableParts(parts, section, num, count, markdown) ==
    LET flushed == FlushText(parts, section, num)
        n       == num + Len(flushed) - Len(parts)
    IN  IF markdown # <<>>
        THEN Append(flushed, Part("table", TableContent(count + 1, markdown), n))
        ELSE flushed

\* the texts a paragraph can have, blank ones among them
ParagraphTexts == {<<>>, <<" ">>, <<"a">>, <<" ", "b", " ">>}

\* the tables a document can have: one row, two rows, a short second row, a
\* long second row, unreadable
BodyTables ==
    { DocxTable(<<<<<<"h">>>>>>, FALSE),
      DocxTable(<<<<<<"h">>>>, <<<<" ", "x">>>>>>, FALSE),
      DocxTable(<<<<<<"h">>, <<"k">>>>, <<<<"x">>>>>>, FALSE),
      DocxTable(<<<<<<"h">>>>, <<<<"x">>>>>>, TRUE) }

Elements == {DocxParagraph(t) : t \in ParagraphTexts} \cup BodyTables

MaxElems == 3

DocxInit ==
    /\ body \in {<<>>} \cup SeqsUpTo(Elements, MaxElems)
    /\ cursor = 0
    /\ current_section = <<>>
    /\ content_parts = <<>>
    /\ section_num = 0
    /\ table_count = 0
    /\ documents = <<>>
    /\ originOfCurrent = <<>>
    /\ originOfParts = <<>>
    /\ docPc = "loop"
    /\ onDuplicate = "raise"
    /\ chunks = <<>>
    /\ NoStore /\ IdleArrival /\ IdleMeta /\ IdleIds /\ IdleDir /\ IdleTable

\* DocxDocument(file_path) raises: the except branch returns [] (lines 48,
\* 127-129)
OpenFails ==
    /\ docPc = "loop" /\ cursor = 0
    /\ docPc' = "failed"
    /\ documents' = <<>>
    /\ UNCHANGED <<body, cursor, current_section, content_parts, section_num,
                   table_count, originOfCurrent, originOfParts>>
    /\ UNCHANGED <<metaVars, arrival, idVars, storeVars, dirVars, tableVars>>

\* one turn of the loop on a paragraph (lines 60-65)
StepParagraph ==
    /\ docPc = "loop" /\ cursor < Len(body)
    /\ body[cursor + 1].kind = "paragraph"
    /\ LET text == strip(body[cursor + 1].text)
       IN  /\ current_section' = IF text # <<>>
                                 THEN Append(current_section, text)
                                 ELSE current_section
           /\ originOfCurrent' = IF text # <<>>
                                 THEN Append(originOfCurrent, cursor + 1)
                                 ELSE originOfCurrent
    /\ cursor' = cursor + 1
    /\ UNCHANGED <<body, content_parts, section_num, table_count, documents,
                   originOfParts, docPc>>
    /\ UNCHANGED <<metaVars, arrival, idVars, storeVars, dirVars, tableVars>>

\* one turn of the loop on a table (lines 67-91)
StepTable ==
    /\ docPc = "loop" /\ cursor < Len(body)
    /\ body[cursor + 1].kind = "table"
    /\ LET markdown == extract_docx_table(body[cursor + 1])
           flushed  == FlushText(content_parts, current_section, section_num)
       IN  /\ content_parts' = TableParts(content_parts, current_section,
                                          section_num, table_count, markdown)
           /\ section_num' = section_num + Len(content_parts') - Len(content_parts)
           /\ table_count' = IF markdown # <<>> THEN table_count + 1
                             ELSE table_count
           /\ originOfParts' =
                 originOfParts
                 \o (IF flushed # content_parts THEN <<originOfCurrent>> ELSE <<>>)
                 \o (IF markdown # <<>> THEN << <<cursor + 1>> >> ELSE <<>>)
    /\ current_section' = <<>>
    /\ originOfCurrent' = <<>>
    /\ cursor' = cursor + 1
    /\ UNCHANGED <<body, documents, docPc>>
    /\ UNCHANGED <<metaVars, arrival, idVars, storeVars, dirVars, tableVars>>

\* after the loop: the remaining text, then the documents (lines 94-125)
Finish ==
    /\ docPc = "loop" /\ cursor = Len(body)
    /\ content_parts' = FlushText(content_parts, current_section, section_num)
    /\ originOfParts' = IF content_parts' # content_parts
                        THEN Append(originOfParts, originOfCurrent)
                        ELSE originOfParts
    /\ documents' = MakeDocuments("a.docx", content_parts')
    /\ docPc' = "done"
    /\ UNCHANGED <<body, cursor, current_section, section_num, table_count,
                   originOfCurrent>>
    /\ UNCHANGED <<metaVars, arrival, idVars, storeVars, dirVars, tableVars>>

DocxNext == OpenFails \/ StepParagraph \/ StepTable \/ Finish

SpecDocx == DocxInit /\ [][DocxNext]_vars

\* the body elements that leave something in the output: a paragraph with
\* text, a table that converts to a non-empty result
IsTable(i) == body[i].kind = "table"
KeptParagraph(i) == body[i].kind = "paragraph" /\ strip(body[i].text) # <<>>
KeptTable(i) == IsTable(i) /\ extract_docx_table(body[i]) # <<>>
Kept == {i \in 1..Len(body) : KeptParagraph(i) \/ KeptTable(i)}

\* section k of the output originated from a table
FromTable(k) == IsTable(originOfParts[k][1])

\* C7: the sections returned by extract_content_from_docx are numbered
\* without gaps: the i-th section (0-based) has page = i and section = i,
\* every section has total_pages = the number of sections, and a section is
\* a table section (type docx_table, has_table true) exactly when it
\* originated from a table, whatever blank paragraphs and dropped tables the
\* body holds.
C7_GaplessSections ==
    docPc = "done" =>
        /\ Len(documents) = Len(originOfParts)
        /\ Len(documents) = Len(content_parts)
        /\ \A k \in 1..Len(documents) :
              LET md == documents[k].metadata
              IN  /\ md["page"] = PyInt(k - 1)
                  /\ content_parts[k].section = k - 1
                  /\ md["total_pages"] = PyInt(Len(documents))
                  /\ originOfParts[k] # <<>>
                  /\ md["has_table"] = PyBool(FromTable(k))
                  /\ md["type"] = PyStr(IF FromTable(k) THEN "docx_table"
                                        ELSE "docx_text")
                  /\ (content_parts[k].type = "table") = FromTable(k)

\* a text section and a table section around a blank paragraph or a dropped
\* table
C7_Witness ==
    /\ docPc = "done"
    /\ Len(documents) = 2
    /\ \E i \in 1..Len(body) : i \notin Kept
    /\ \E k \in 1..2 : documents[k].metadata["has_table"] = PyBool(TRUE)
    /\ \E k \in 1..2 : documents[k].metadata["has_table"] = PyBool(FALSE)

\* the content a section has when it is made of the body elements os
ContentOf(os) ==
    IF IsTable(os[1])
    THEN TableContent(Cardinality({i \in 1..os[1] : KeptTable(i)}),
                      extract_docx_table(body[os[1]]))
    ELSE join(<<"\n", "\n">>, [n \in 1..Len(os) |-> strip(body[os[n]].text)])

\* the last table element before position j (0 when there is none)
LastTableBefore(j) ==
    IF \E i \in 1..(j - 1) : IsTable(i)
    THEN CHOOSE i \in 1..(j - 1) : IsTable(i) /\ \A m \in (i + 1)..(j - 1) : ~IsTable(m)
    ELSE 0

\* the paragraphs with text between the table before position j and j
TextBefore(j) == {i \in (LastTableBefore(j) + 1)..(j - 1) : KeptParagraph(i)}

\* C8: sections preserve document order. The paragraphs with text and the
\* converted tables appear in the sections in their order in the body, none
\* lost and none repeated; each section holds exactly the content of its
\* elements; a table's section comes immediately after the section of the
\* text accumulated ahead of it; nothing that precedes a table is in a
\* section after the table's; the text after the last table is the final
\* section.
C8_DocumentOrder ==
    docPc = "done" =>
        LET origins == Concat(originOfParts)
            n       == Len(originOfParts)
        IN  /\ Len(documents) = n
            /\ \A a, b \in 1..Len(origins) : a < b => origins[a] < origins[b]
            /\ Range(origins) = Kept
            /\ \A k \in 1..n :
                  /\ originOfParts[k] # <<>>
                  /\ documents[k].page_content = ContentOf(originOfParts[k])
                  /\ FromTable(k) =>
                        /\ Len(originOfParts[k]) = 1
                        /\ TextBefore(originOfParts[k][1]) # {} =>
                              /\ k > 1
                              /\ Range(originOfParts[k - 1])
                                    = TextBefore(originOfParts[k][1])
                        /\ \A m \in (k + 1)..n : \A a \in 1..Len(originOfParts[m]) :
                              originOfParts[m][a] > originOfParts[k][1]
                  /\ ~FromTable(k) =>
                        \A a \in 1..Len(originOfParts[k]) :
                            KeptParagraph(originOfParts[k][a])
            /\ TextBefore(Len(body) + 1) # {} =>
                  /\ n > 0
                  /\ Range(originOfParts[n]) = TextBefore(Len(body) + 1)

\* text, a converted table, text: three sections in that order
C8_Witness ==
    /\ docPc = "done"
    /\ Len(body) = 3
    /\ KeptParagraph(1) /\ KeptTable(2) /\ KeptParagraph(3)
    /\ originOfParts = << <<1>>, <<2>>, <<3>> >>
    /\ documents[2].metadata["has_table"] = PyBool(TRUE)
    /\ documents[3].page_content = strip(body[3].text)

-----------------------------------------------------------------------------
(* docx_loader.py: extract_docx_table on one table *)

\* the texts a cell can have: empty, plain, padded, two paragraphs (python-docx
\* joins the paragraphs of a cell with a newline), a vertical bar
CellTexts == {<<>>, <<"a">>, <<" ", "b">>, <<"a", "\n", "b">>, <<"|">>}

MaxRows == 3
MaxCols == 2

TableRows == SeqsUpTo(CellTexts, MaxCols)

TableInit ==
    /\ \E rows \in {<<>>} \cup SeqsUpTo(TableRows, MaxRows), raises \in BOOLEAN :
          docx_table = DocxTable(rows, raises)
    /\ markdown_table = <<>>
    /\ tablePc = "start"
    /\ onDuplicate = "raise"
    /\ chunks = <<>>
    /\ NoStore /\ IdleArrival /\ IdleMeta /\ IdleIds /\ IdleDir /\ IdleDoc

ExtractTable ==
    /\ tablePc = "start"
    /\ markdown_table' = extract_docx_table(docx_table)
    /\ tablePc' = "done"
    /\ UNCHANGED <<docx_table, metaVars, arrival, idVars, storeVars, dirVars, docVars>>

TableNext == ExtractTable

SpecTable == TableInit /\ [][TableNext]_vars

\* the pieces of s between the occurrences of the character c
RECURSIVE Split(_, _)
Split(s, c) ==
    IF \E i \in 1..Len(s) : s[i] = c
    THEN LET i == CHOOSE i \in 1..Len(s) : s[i] = c /\ \A m \in 1..(i - 1) : s[m] # c
         IN  <<SubSeq(s, 1, i - 1)>> \o Split(SubSeq(s, i + 1, Len(s)), c)
    ELSE <<s>>

\* the lines of a Markdown text and the cells of one line, as a Markdown
\* reader takes them
LinesOf(markdown) == Split(markdown, "\n")
CellsOf(line) ==
    LET pieces == Split(line, "|")
    IN  [i \in 1..(Len(pieces) - 2) |-> strip(pieces[i + 1])]

\* C9: a table of two rows or more converts to a header line made of the
\* first row, one separator line and one line for each remaining row, each
\* line with as many cells as the header (a short row padded with empty
\* cells, a long row cut); a table of fewer than two rows converts to the
\* empty text.
C9_TableLines ==
    (tablePc = "done" /\ ~docx_table.raises) =>
        LET table_data == table_data_of(docx_table)
            headers    == table_data[1]
            lines      == LinesOf(markdown_table)
        IN  IF Len(table_data) >= 2
            THEN /\ Len(lines) = Len(table_data) + 1
                 /\ CellsOf(lines[1]) = headers
                 /\ CellsOf(lines[2]) = [i \in 1..Len(headers) |-> <<"-", "-", "-">>]
                 /\ \A r \in 2..Len(table_data) :
                       CellsOf(lines[r + 1]) =
                           [i \in 1..Len(headers) |->
                               IF i <= Len(table_data[r]) THEN table_data[r][i]
                               ELSE <<>>]
            ELSE markdown_table = <<>>

-----------------------------------------------------------------------------
(* SpecOrder: save_to_chroma is given the chunks of split_text, normalised *)
(* by clean_metadata as main does (lines 256-262), in any order.           *)

MaxArrival == 4

\* the directories main can find: one version of a file name at most
Directories ==
    {D \in SUBSET Files : \A f, g \in D : f.name = g.name => f = g}

\* what split_text returns for the directories and their listings
SplitOutputs ==
    UNION {{split_text(load_document(order)) : order \in Listings(D)} :
              D \in Directories}

\* the orders in which the chunks cs can reach the store writer
Arrivals(cs) ==
    {[i \in 1..Len(cs) |-> cs[p[i]]] :
        p \in {q \in [1..Len(cs) -> 1..Len(cs)] : Range(q) = 1..Len(cs)}}

OrderInit ==
    /\ \E cs \in SplitOutputs :
          /\ Len(cs) \in 1..MaxArrival
          /\ arrival \in Arrivals(cs)
    /\ chunks = Recleaned(arrival)
    /\ onDuplicate = "raise"
    /\ NoStore /\ IdleMeta /\ IdleIds /\ IdleDir /\ IdleDoc /\ IdleTable

OrderNext == SaveHeld \/ ClearDatabase

SpecOrder == OrderInit /\ [][OrderNext]_vars

\* two chunks of one section
SameSection(c, d) ==
    /\ SourceOf(c) = SourceOf(d)
    /\ PageOf(c) = PageOf(d)
    /\ HasTable(c) = HasTable(d)

\* the chunks of c's section that start before c
EarlierInSection(c) ==
    {i \in 1..Len(arrival) :
        SameSection(arrival[i], c) /\ StartOf(arrival[i]) < StartOf(c)}

\* the chunk split_text returned with this text
OriginalOf(text) == CHOOSE c \in Range(arrival) : c.page_content = text

\* C11: whatever the order in which the chunks of split_text, normalised by
\* clean_metadata, reach save_to_chroma, the IDs are assigned in ascending
\* order of (source, page, has_table, start offset), and so the chunks of
\* one section get chunk_0, chunk_1, ... in ascending order of their start
\* offset within the section.
C11_SortedByStart ==
    op = "save" =>
        /\ Len(assigned) = Len(arrival)
        /\ \A a \in 1..(Len(assigned) - 1) :
              StatedKeyLeq(OriginalOf(assigned[a].text),
                           OriginalOf(assigned[a + 1].text))
        /\ \A i \in 1..Len(arrival) :
              chunks[i].metadata["id"] =
                  PyStr(PageIdentity(arrival[i]) \o ":chunk_"
                        \o ToString(Cardinality(EarlierInSection(arrival[i]))))

=============================================================================
